---- MODULE Spec2Model ----
(***************************************************************************)
(* AnsiEscape (libraries/node-core-library/src/Terminal/AnsiEscape.ts):    *)
(* removeCodes and formatForTests over the shared static regular           *)
(* expressions.  Strings are sequences of character codes; a regular       *)
(* expression's lastIndex is kept 0-based as in the source language, and   *)
(* position p of a string is element p + 1 of its sequence.                *)
(***************************************************************************)
EXTENDS Integers, Sequences, FiniteSets

VARIABLES text, options, op, result, lastIndex, earlier

vars == <<text, options, op, result, lastIndex, earlier>>

---------------------------------------------------------------------------
(* Character codes named by the regular expressions and the tokens.        *)
ESC == 27
LBracket == 91
RBracket == 93
LF == 10
CR == 13
LowerM == 109
LowerN == 110
LowerR == 114
Digit0 == 48
Digit9 == 57
ParamLo == 48
ParamHi == 63
InterLo == 32
InterHi == 47
FinalLo == 64
FinalHi == 126

\* Variant: only the SGR command "m" ends a sequence.
IsFinalOnlyM(c) == c = 109

IsFinal(c) == c >= FinalLo /\ c <= FinalHi

IsParam(c) == c >= ParamLo /\ c <= ParamHi
IsInter(c) == c >= InterLo /\ c <= InterHi
IsDigit(c) == c >= Digit0 /\ c <= Digit9

Min(S) == CHOOSE x \in S : \A y \in S : x <= y
Max(S) == CHOOSE x \in S : \A y \in S : x >= y

---------------------------------------------------------------------------
(* _csiRegExp = /\x1b\[([\x30-\x3f]*[\x20-\x2f]*[\x40-\x7e])/gu            *)

\* Length of the run of parameter bytes of s that starts at element i.
RECURSIVE ParamRun(_, _)
ParamRun(s, i) ==
    IF i <= Len(s) /\ IsParam(s[i]) THEN 1 + ParamRun(s, i + 1) ELSE 0

\* Length of the run of intermediate bytes of s that starts at element i.
RECURSIVE InterRun(_, _)
InterRun(s, i) ==
    IF i <= Len(s) /\ IsInter(s[i]) THEN 1 + InterRun(s, i + 1) ELSE 0

\* The ways the pattern's tail matches after "ESC [" at element i: a
\* parameter bytes, then b intermediate bytes, then one final byte.
CsiTails(s, i) ==
    {ab \in UNION {{<<a, b>> : b \in 0 .. InterRun(s, i + 2 + a)} :
                       a \in 0 .. ParamRun(s, i + 2)} :
        /\ i + 2 + ab[1] + ab[2] <= Len(s)
        /\ IsFinal(s[i + 2 + ab[1] + ab[2]])}

\* Variant: the final byte is optional, as in [\x40-\x7e]? .
CsiMatchLastOptionalFinal(s, i) ==
    IF i + 1 > Len(s) \/ s[i] # ESC \/ s[i + 1] # LBracket THEN 0
    ELSE LET a == ParamRun(s, i + 2)
             b == InterRun(s, i + 2 + a)
             f == IF i + 2 + a + b <= Len(s) /\ IsFinal(s[i + 2 + a + b])
                  THEN 1 ELSE 0
         IN  i + 1 + a + b + f

\* The match of the pattern anchored at element i: the element of its last
\* character, 0 when there is none.  Both stars are greedy: the engine
\* takes the longest parameter run that still lets the rest match, then
\* the longest intermediate run.
CsiMatchLast(s, i) ==
    IF i + 1 > Len(s) \/ s[i] # ESC \/ s[i + 1] # LBracket THEN 0
    ELSE LET tails == CsiTails(s, i)
         IN  IF tails = {} THEN 0
             ELSE LET a == Max({ab[1] : ab \in tails})
                      b == Max({ab[2] : ab \in {t \in tails : t[1] = a}})
                  IN  i + 2 + a + b

\* _csiRegExp.exec(s) with the g flag, read at lastIndex li: the leftmost
\* match at or after position li; lastIndex becomes the position after the
\* match, and 0 when nothing matches.
CsiExec(s, li) ==
    LET starts == {i \in (li + 1) .. Len(s) : CsiMatchLast(s, i) # 0}
    IN  IF li > Len(s) \/ starts = {}
        THEN [found |-> FALSE, index |-> 0, last |-> 0, lastIndex |-> 0]
        ELSE LET i    == Min(starts)
                 last == CsiMatchLast(s, i)
             IN  [found |-> TRUE, index |-> i, last |-> last, lastIndex |-> last]

\* The matches a global replace collects: exec is repeated from the
\* lastIndex the previous exec left, until it fails.
RECURSIVE CsiMatchesFrom(_, _)
CsiMatchesFrom(s, li) ==
    LET m == CsiExec(s, li)
    IN  IF m.found THEN <<m>> \o CsiMatchesFrom(s, m.lastIndex) ELSE <<>>

\* String.prototype.replace with a global pattern sets lastIndex to 0
\* before the first exec, whatever an earlier call left there.
ReplaceStartIndex(li) == 0

\* lastIndex after the replace: what the last, failing exec left.
RECURSIVE CsiFinalLastIndex(_, _)
CsiFinalLastIndex(s, li) ==
    LET m == CsiExec(s, li)
    IN  IF m.found THEN CsiFinalLastIndex(s, m.lastIndex) ELSE m.lastIndex

---------------------------------------------------------------------------
(* _sgrRegExp = /([0-9]+)m/u                                               *)

\* Variant: the pattern carries the g flag.
SgrRegExpGlobalSet == TRUE

SgrRegExpGlobal == FALSE

RECURSIVE DigitRun(_, _)
DigitRun(s, i) ==
    IF i <= Len(s) /\ IsDigit(s[i]) THEN 1 + DigitRun(s, i + 1) ELSE 0

\* Variant: the group is one digit, as in ([0-9])m .
SgrMatchOneDigit(s, i) ==
    IF i + 1 <= Len(s) /\ IsDigit(s[i]) /\ s[i + 1] = LowerM THEN 1 ELSE 0

\* The pattern anchored at element i of s: the number of digits of group 1,
\* 0 when it does not match there ([0-9]+ is greedy, and a shorter run is
\* followed by a digit, never by "m").
SgrMatchDigits(s, i) ==
    LET n == DigitRun(s, i)
    IN  IF n >= 1 /\ i + n <= Len(s) /\ s[i + n] = LowerM THEN n ELSE 0

\* csiCode.match(_sgrRegExp): the pattern is not anchored, so the engine
\* tries every start from the left; without the g flag the search starts
\* at 0 and lastIndex is left alone.
SgrExec(s, li) ==
    LET from   == IF SgrRegExpGlobal THEN li ELSE 0
        starts == {i \in (from + 1) .. Len(s) : SgrMatchDigits(s, i) # 0}
    IN  IF from > Len(s) \/ starts = {}
        THEN [found |-> FALSE, group1 |-> <<>>,
              lastIndex |-> IF SgrRegExpGlobal THEN 0 ELSE li]
        ELSE LET i == Min(starts)
                 n == SgrMatchDigits(s, i)
             IN  [found |-> TRUE, group1 |-> SubSeq(s, i, i + n - 1),
                  lastIndex |-> IF SgrRegExpGlobal THEN i + n ELSE li]

\* parseInt of a run of decimal digits.
RECURSIVE parseInt(_)
parseInt(d) ==
    IF d = <<>> THEN 0
    ELSE 10 * parseInt(SubSeq(d, 1, Len(d) - 1)) + (d[Len(d)] - Digit0)

Str(t) == [isString |-> TRUE, chars |-> t]
Undefined == [isString |-> FALSE, chars |-> <<>>]
Truthy(v) == v.isString /\ v.chars # <<>>

tryGetSgrFriendlyName(sgiParameter) ==
    CASE sgiParameter = 30 -> Str(<<98, 108, 97, 99, 107>>)   \* 'black'
      [] sgiParameter = 31 -> Str(<<114, 101, 100>>)   \* 'red'
      [] sgiParameter = 32 -> Str(<<103, 114, 101, 101, 110>>)   \* 'green'
      [] sgiParameter = 33 -> Str(<<121, 101, 108, 108, 111, 119>>)   \* 'yellow'
      [] sgiParameter = 34 -> Str(<<98, 108, 117, 101>>)   \* 'blue'
      [] sgiParameter = 35 -> Str(<<109, 97, 103, 101, 110, 116, 97>>)   \* 'magenta'
      [] sgiParameter = 36 -> Str(<<99, 121, 97, 110>>)   \* 'cyan'
      [] sgiParameter = 37 -> Str(<<119, 104, 105, 116, 101>>)   \* 'white'
      [] sgiParameter = 90 -> Str(<<103, 114, 97, 121>>)   \* 'gray'
      [] sgiParameter = 39 -> Str(<<100, 101, 102, 97, 117, 108, 116>>)   \* 'default'
      [] sgiParameter = 40 -> Str(<<98, 108, 97, 99, 107, 45, 98, 103>>)   \* 'black-bg'
      [] sgiParameter = 41 -> Str(<<114, 101, 100, 45, 98, 103>>)   \* 'red-bg'
      [] sgiParameter = 42 -> Str(<<103, 114, 101, 101, 110, 45, 98, 103>>)   \* 'green-bg'
      [] sgiParameter = 43 -> Str(<<121, 101, 108, 108, 111, 119, 45, 98, 103>>)   \* 'yellow-bg'
      [] sgiParameter = 44 -> Str(<<98, 108, 117, 101, 45, 98, 103>>)   \* 'blue-bg'
      [] sgiParameter = 45 -> Str(<<109, 97, 103, 101, 110, 116, 97, 45, 98, 103>>)   \* 'magenta-bg'
      [] sgiParameter = 46 -> Str(<<99, 121, 97, 110, 45, 98, 103>>)   \* 'cyan-bg'
      [] sgiParameter = 47 -> Str(<<119, 104, 105, 116, 101, 45, 98, 103>>)   \* 'white-bg'
      [] sgiParameter = 100 -> Str(<<103, 114, 97, 121, 45, 98, 103>>)   \* 'gray-bg'
      [] sgiParameter = 49 -> Str(<<100, 101, 102, 97, 117, 108, 116, 45, 98, 103>>)   \* 'default-bg'
      [] sgiParameter = 1 -> Str(<<98, 111, 108, 100>>)   \* 'bold'
      [] sgiParameter = 21 -> Str(<<98, 111, 108, 100, 45, 111, 102, 102>>)   \* 'bold-off'
      [] sgiParameter = 2 -> Str(<<100, 105, 109>>)   \* 'dim'
      [] sgiParameter = 22 -> Str(<<110, 111, 114, 109, 97, 108>>)   \* 'normal'
      [] sgiParameter = 4 -> Str(<<117, 110, 100, 101, 114, 108, 105, 110, 101>>)   \* 'underline'
      [] sgiParameter = 24 -> Str(<<117, 110, 100, 101, 114, 108, 105, 110, 101, 45, 111, 102, 102>>)   \* 'underline-off'
      [] sgiParameter = 5 -> Str(<<98, 108, 105, 110, 107>>)   \* 'blink'
      [] sgiParameter = 25 -> Str(<<98, 108, 105, 110, 107, 45, 111, 102, 102>>)   \* 'blink-off'
      [] sgiParameter = 7 -> Str(<<105, 110, 118, 101, 114, 116>>)   \* 'invert'
      [] sgiParameter = 27 -> Str(<<105, 110, 118, 101, 114, 116, 45, 111, 102, 102>>)   \* 'invert-off'
      [] sgiParameter = 8 -> Str(<<104, 105, 100, 100, 101, 110>>)   \* 'hidden'
      [] sgiParameter = 28 -> Str(<<104, 105, 100, 100, 101, 110, 45, 111, 102, 102>>)   \* 'hidden-off'
      [] OTHER -> Undefined


---------------------------------------------------------------------------
(* removeCodes                                                             *)

\* Variant: the splice resumes one character early and keeps the first
\* character of every match.
RECURSIVE RemoveSpliceKeepsFirst(_, _, _)
RemoveSpliceKeepsFirst(s, ms, pos) ==
    IF ms = <<>> THEN SubSeq(s, pos, Len(s))
    ELSE SubSeq(s, pos, ms[1].index)
             \o RemoveSpliceKeepsFirst(s, Tail(ms), ms[1].last + 1)

\* The replace's splice for the replacement '': the text between the
\* matches, from element pos on.
RECURSIVE RemoveSplice(_, _, _)
RemoveSplice(s, ms, pos) ==
    IF ms = <<>> THEN SubSeq(s, pos, Len(s))
    ELSE SubSeq(s, pos, ms[1].index - 1)
             \o RemoveSplice(s, Tail(ms), ms[1].last + 1)

\* removeCodes(s) called with the static patterns' lastIndex values li:
\* the string returned and the lastIndex values left.
removeCodes(s, li) ==
    LET from == ReplaceStartIndex(li.csi)
    IN  [out |-> RemoveSplice(s, CsiMatchesFrom(s, from), 1),
         lastIndex |-> [li EXCEPT !.csi = CsiFinalLastIndex(s, from)]]

---------------------------------------------------------------------------
(* formatForTests                                                          *)

\* The options argument: undefined, or an object whose encodeNewlines is
\* unset, false or true.
Absent == [present |-> FALSE, encodeNewlines |-> "unset"]
Options ==
    {Absent} \cup
    {[present |-> TRUE, encodeNewlines |-> e] : e \in {"unset", "false", "true"}}

\* if (!options) { options = {}; }  ...  if (options.encodeNewlines)
EncodeNewlines(o) ==
    LET opts == IF ~o.present THEN [present |-> TRUE, encodeNewlines |-> "unset"]
                ELSE o
    IN  opts.encodeNewlines = "true"

\* Variant: the final byte is dropped from the token.
RawTokenNoTerminator(csiCode) ==
    <<LBracket>> \o SubSeq(csiCode, 1, Len(csiCode) - 1) \o <<RBracket>>

\* The token for a match with no friendly name.
RawToken(csiCode) == <<LBracket>> \o csiCode \o <<RBracket>>

\* The replace callback on one match (capture, csiCode), the SGR pattern's
\* lastIndex being sgrLi: the token returned and the lastIndex left.
Replacer(capture, csiCode, sgrLi) ==
    LET match == SgrExec(csiCode, sgrLi)
        sgrParameterName ==
            IF match.found THEN tryGetSgrFriendlyName(parseInt(match.group1))
            ELSE Undefined
    IN  [out |-> IF match.found /\ Truthy(sgrParameterName)
                 THEN <<LBracket>> \o sgrParameterName.chars \o <<RBracket>>
                 ELSE RawToken(csiCode),
         sgr |-> match.lastIndex]

\* Variant: the splice resumes one character late after every match.
RECURSIVE FormatSpliceSkipsNext(_, _, _, _)
FormatSpliceSkipsNext(s, ms, pos, sgrLi) ==
    IF ms = <<>> THEN [out |-> SubSeq(s, pos, Len(s)), sgr |-> sgrLi]
    ELSE LET m    == ms[1]
             r    == Replacer(SubSeq(s, m.index, m.last),
                              SubSeq(s, m.index + 2, m.last), sgrLi)
             rest == FormatSpliceSkipsNext(s, Tail(ms), m.last + 2, r.sgr)
         IN  [out |-> SubSeq(s, pos, m.index - 1) \o r.out \o rest.out,
              sgr |-> rest.sgr]

\* The replace's splice with the callback, called on the matches from left
\* to right.
RECURSIVE FormatSplice(_, _, _, _)
FormatSplice(s, ms, pos, sgrLi) ==
    IF ms = <<>> THEN [out |-> SubSeq(s, pos, Len(s)), sgr |-> sgrLi]
    ELSE LET m    == ms[1]
             r    == Replacer(SubSeq(s, m.index, m.last),
                              SubSeq(s, m.index + 2, m.last), sgrLi)
             rest == FormatSplice(s, Tail(ms), m.last + 1, r.sgr)
         IN  [out |-> SubSeq(s, pos, m.index - 1) \o r.out \o rest.out,
              sgr |-> rest.sgr]

\* s.replace(/c/g, token) for a one-character pattern.
RECURSIVE ReplaceChar(_, _, _)
ReplaceChar(s, c, token) ==
    IF s = <<>> THEN <<>>
    ELSE (IF Head(s) = c THEN token ELSE <<Head(s)>>)
             \o ReplaceChar(Tail(s), c, token)

\* Variant: the newline substitution runs before the escape substitution.
FormatResultNewlinesFirst(s, o, li) ==
    LET from == ReplaceStartIndex(li.csi)
        t    == IF EncodeNewlines(o)
                THEN ReplaceChar(ReplaceChar(s, LF, <<LBracket, LowerN, RBracket>>),
                                 CR, <<LBracket, LowerR, RBracket>>)
                ELSE s
    IN  FormatSplice(t, CsiMatchesFrom(t, from), 1, li.sgr).out

\* The escape substitution, then the newline substitution when asked for.
FormatResult(s, o, li) ==
    LET from == ReplaceStartIndex(li.csi)
        r    == FormatSplice(s, CsiMatchesFrom(s, from), 1, li.sgr)
    IN  IF EncodeNewlines(o)
        THEN ReplaceChar(ReplaceChar(r.out, LF, <<LBracket, LowerN, RBracket>>),
                         CR, <<LBracket, LowerR, RBracket>>)
        ELSE r.out

\* formatForTests(s, o) called with the static patterns' lastIndex values
\* li: the string returned and the lastIndex values left.
formatForTests(s, o, li) ==
    LET from == ReplaceStartIndex(li.csi)
        r    == FormatSplice(s, CsiMatchesFrom(s, from), 1, li.sgr)
        enc  == EncodeNewlines(o)
    IN  [out |-> FormatResult(s, o, li),
         lastIndex |-> [csi |-> CsiFinalLastIndex(s, from),
                        sgr |-> r.sgr,
                        n   |-> IF enc THEN 0 ELSE li.n,
                        r   |-> IF enc THEN 0 ELSE li.r]]

---------------------------------------------------------------------------
(* The callers.  Spec, SpecCsi and SpecSgr hand every text of a bounded    *)
(* set to the two operations; SpecCalls makes calls one after another, on  *)
(* new texts and on the strings earlier calls returned.                    *)

MaxLen == 4
MaxCsiLen == 6
MaxParams == 4
MaxCode == 110
MaxCallLen == 4

Strings(A, n) == UNION {[1 .. k -> A] : k \in 0 .. n}

\* ESC [ m 1 ; SP LF CR
Alphabet == {ESC, LBracket, LowerM, 49, 59, 32, LF, CR}
Inputs == Strings(Alphabet, MaxLen)

\* ESC [ m 1 SP
CsiAlphabet == {ESC, LBracket, LowerM, 49, 32}
CsiInputs == Strings(CsiAlphabet, MaxCsiLen)

\* The decimal digits of n, as a caller building "ESC [ n m" writes them.
RECURSIVE ToDigits(_)
ToDigits(n) ==
    IF n < 10 THEN <<Digit0 + n>>
    ELSE ToDigits(n \div 10) \o <<Digit0 + (n % 10)>>

\* ESC [ n m for every number n up to MaxCode, and ESC [ p m for every
\* parameter string p over 0 1 3 ; up to MaxParams characters.
SgrInputs ==
    {<<ESC, LBracket>> \o ToDigits(n) \o <<LowerM>> : n \in 0 .. MaxCode} \cup
    {<<ESC, LBracket>> \o p \o <<LowerM>> : p \in Strings({48, 49, 51, 59}, MaxParams)}

\* ESC [ m 1
CallAlphabet == {ESC, LBracket, LowerM, 49}
CallInputs == Strings(CallAlphabet, MaxCallLen)

FreshLastIndex == [csi |-> 0, sgr |-> 0, n |-> 0, r |-> 0]

\* earlier: whether calls were made before the current text was chosen.
InitOn(S) ==
    /\ text \in S
    /\ options = Absent
    /\ op = "none"
    /\ result = <<>>
    /\ lastIndex = FreshLastIndex
    /\ earlier = FALSE

RemoveCodesCall ==
    LET r == removeCodes(text, lastIndex)
    IN  /\ op' = "removeCodes"
        /\ options' = Absent
        /\ result' = r.out
        /\ lastIndex' = r.lastIndex
        /\ UNCHANGED <<text, earlier>>

FormatForTestsCall ==
    \E o \in Options :
        LET r == formatForTests(text, o, lastIndex)
        IN  /\ op' = "formatForTests"
            /\ options' = o
            /\ result' = r.out
            /\ lastIndex' = r.lastIndex
            /\ UNCHANGED <<text, earlier>>

\* The caller hands the string returned to the next call.
PassOutput ==
    /\ op # "none"
    /\ text' = result
    /\ op' = "none"
    /\ options' = Absent
    /\ result' = <<>>
    /\ earlier' = TRUE
    /\ UNCHANGED lastIndex

\* The caller goes on to another text.
NewArgument ==
    /\ op # "none"
    /\ \E t \in CallInputs :
        /\ text' = t
        /\ op' = "none"
        /\ options' = Absent
        /\ result' = <<>>
        /\ earlier' = TRUE
        /\ UNCHANGED lastIndex

Next == RemoveCodesCall \/ FormatForTestsCall
NextCalls == RemoveCodesCall \/ FormatForTestsCall \/ PassOutput \/ NewArgument

Init == InitOn(Inputs)
InitCsi == InitOn(CsiInputs)
InitSgr == InitOn(SgrInputs)
InitCalls == InitOn(CallInputs)

Spec == Init /\ [][Next]_vars
SpecCsi == InitCsi /\ [][Next]_vars
SpecSgr == InitSgr /\ [][Next]_vars
SpecCalls == InitCalls /\ [][NextCalls]_vars

---------------------------------------------------------------------------
(* The CSI grammar as the specification words it: ESC, "[", parameter      *)
(* bytes 0x30-0x3F, intermediate bytes 0x20-0x2F, one final byte           *)
(* 0x40-0x7E.                                                              *)

\* The substrings of s that match the grammar, as <<first, last>> elements.
RefSpans(s) ==
    {sp \in (1 .. Len(s)) \X (1 .. Len(s)) :
        /\ sp[2] >= sp[1] + 2
        /\ s[sp[1]] = 27
        /\ s[sp[1] + 1] = 91
        /\ s[sp[2]] \in 64 .. 126
        /\ \E k \in (sp[1] + 2) .. sp[2] :
            /\ \A x \in (sp[1] + 2) .. (k - 1) : s[x] \in 48 .. 63
            /\ \A x \in k .. (sp[2] - 1) : s[x] \in 32 .. 47}

\* The elements of s inside some grammar substring.
RefCovered(s) ==
    {x \in 1 .. Len(s) : \E sp \in RefSpans(s) : sp[1] <= x /\ x <= sp[2]}

\* s from element x on without the elements in C.
RECURSIVE KeepFrom(_, _, _)
KeepFrom(s, x, C) ==
    IF x > Len(s) THEN <<>>
    ELSE (IF x \in C THEN <<>> ELSE <<s[x]>>) \o KeepFrom(s, x + 1, C)

CountEsc(s) == Cardinality({x \in 1 .. Len(s) : s[x] = 27})

\* r from element y on is s from element x on with one bracket token
\* "[" ... "]", holding no ESC, in the place of every grammar substring.
RECURSIVE TokensInPlace(_, _, _, _)
TokensInPlace(s, x, r, y) ==
    IF x > Len(s) THEN y = Len(r) + 1
    ELSE IF \E sp \in RefSpans(s) : sp[1] = x
    THEN LET sp == CHOOSE q \in RefSpans(s) : q[1] = x
         IN  /\ y <= Len(r)
             /\ r[y] = 91
             /\ \E e \in (y + 1) .. Len(r) :
                 /\ r[e] = 93
                 /\ \A z \in y .. e : r[z] # 27
                 /\ TokensInPlace(s, sp[2] + 1, r, e + 1)
    ELSE y <= Len(r) /\ r[y] = s[x] /\ TokensInPlace(s, x + 1, r, y + 1)

NewlinesEncoded == op = "formatForTests" /\ options.encodeNewlines = "true"
FormattedPlain == op = "formatForTests" /\ options.encodeNewlines # "true"

---------------------------------------------------------------------------
\* C1: removeCodes is idempotent: what it returns holds no substring that
\* matches the CSI grammar, so removing the codes of its result changes
\* nothing, also when deleting a match joins the text around it.
C1_Idempotent ==
    op = "removeCodes" =>
        /\ RefSpans(result) = {}
        /\ removeCodes(result, lastIndex).out = result

\* C2 as claimed: what removeCodes returns holds no escape character at all.
C2_NoEscapeAtAll ==
    op = "removeCodes" => \A x \in 1 .. Len(result) : result[x] # 27

\* C2 as amended: the escape characters of what removeCodes returns are
\* exactly those of the text that do not begin a complete CSI sequence, so
\* there is none when every escape character of the text begins one.
C2_OnlyUnmatchedEscapes ==
    op = "removeCodes" =>
        /\ CountEsc(result) = CountEsc(text) - Cardinality(RefSpans(text))
        /\ ((\A x \in 1 .. Len(text) :
                text[x] = 27 => \E sp \in RefSpans(text) : sp[1] = x)
            => \A x \in 1 .. Len(result) : result[x] # 27)

\* A text with a lone escape character and a complete sequence: the
\* sequence is removed and the lone escape character stays.
C2_Witness ==
    /\ op = "removeCodes"
    /\ RefSpans(text) # {}
    /\ CountEsc(text) > Cardinality(RefSpans(text))
    /\ CountEsc(result) > 0

\* C6: the spans the scan recognises are exactly the substrings matching
\* the CSI grammar, whatever their final byte; they do not overlap and are
\* taken from left to right, each once.  removeCodes returns the text with
\* exactly those spans deleted, every other character kept in order, and
\* formatForTests puts one bracket token in the place of each span.
C6_Coverage ==
    LET ms    == CsiMatchesFrom(text, ReplaceStartIndex(lastIndex.csi))
        spans == RefSpans(text)
    IN  /\ {<<ms[k].index, ms[k].last>> : k \in DOMAIN ms} = spans
        /\ Len(ms) = Cardinality(spans)
        /\ \A k \in 1 .. (Len(ms) - 1) : ms[k].last < ms[k + 1].index
        /\ \A p \in spans : \A q \in spans :
               p # q => (p[2] < q[1] \/ q[2] < p[1])
        /\ (op = "removeCodes" => result = KeepFrom(text, 1, RefCovered(text)))
        /\ (FormattedPlain => TokensInPlace(text, 1, result, 1))

\* Two sequences in one text, one of them ended by a byte other than "m",
\* both replaced by a token.
C6_Witness ==
    /\ FormattedPlain
    /\ Cardinality(RefSpans(text)) = 2
    /\ \E sp \in RefSpans(text) : text[sp[2]] # 109
    /\ TokensInPlace(text, 1, result, 1)

\* C7: a text with no complete CSI sequence (plain text, a lone ESC, a
\* sequence cut off before its final byte) is returned unchanged by
\* removeCodes and by formatForTests without newline encoding.
C7_Passthrough ==
    (RefSpans(text) = {} /\ (op = "removeCodes" \/ FormattedPlain))
        => result = text

\* A text that ends in a bare ESC "[", returned as it is by formatForTests.
C7_Witness ==
    /\ FormattedPlain
    /\ Len(text) >= 3
    /\ text[Len(text) - 1] = 27
    /\ text[Len(text)] = 91
    /\ RefSpans(text) = {}
    /\ result = text

---------------------------------------------------------------------------
(* The SGR table as the specification lists it: <<code, name>>.            *)
SgrTable ==
    {
       <<30, <<98, 108, 97, 99, 107>> >>,
       <<40, <<98, 108, 97, 99, 107, 45, 98, 103>> >>,
       <<31, <<114, 101, 100>> >>,
       <<41, <<114, 101, 100, 45, 98, 103>> >>,
       <<32, <<103, 114, 101, 101, 110>> >>,
       <<42, <<103, 114, 101, 101, 110, 45, 98, 103>> >>,
       <<33, <<121, 101, 108, 108, 111, 119>> >>,
       <<43, <<121, 101, 108, 108, 111, 119, 45, 98, 103>> >>,
       <<34, <<98, 108, 117, 101>> >>,
       <<44, <<98, 108, 117, 101, 45, 98, 103>> >>,
       <<35, <<109, 97, 103, 101, 110, 116, 97>> >>,
       <<45, <<109, 97, 103, 101, 110, 116, 97, 45, 98, 103>> >>,
       <<36, <<99, 121, 97, 110>> >>,
       <<46, <<99, 121, 97, 110, 45, 98, 103>> >>,
       <<37, <<119, 104, 105, 116, 101>> >>,
       <<47, <<119, 104, 105, 116, 101, 45, 98, 103>> >>,
       <<90, <<103, 114, 97, 121>> >>,
       <<100, <<103, 114, 97, 121, 45, 98, 103>> >>,
       <<39, <<100, 101, 102, 97, 117, 108, 116>> >>,
       <<49, <<100, 101, 102, 97, 117, 108, 116, 45, 98, 103>> >>,
       <<1, <<98, 111, 108, 100>> >>,
       <<21, <<98, 111, 108, 100, 45, 111, 102, 102>> >>,
       <<2, <<100, 105, 109>> >>,
       <<22, <<110, 111, 114, 109, 97, 108>> >>,
       <<4, <<117, 110, 100, 101, 114, 108, 105, 110, 101>> >>,
       <<24, <<117, 110, 100, 101, 114, 108, 105, 110, 101, 45, 111, 102, 102>> >>,
       <<5, <<98, 108, 105, 110, 107>> >>,
       <<25, <<98, 108, 105, 110, 107, 45, 111, 102, 102>> >>,
       <<7, <<105, 110, 118, 101, 114, 116>> >>,
       <<27, <<105, 110, 118, 101, 114, 116, 45, 111, 102, 102>> >>,
       <<8, <<104, 105, 100, 100, 101, 110>> >>,
       <<28, <<104, 105, 100, 100, 101, 110, 45, 111, 102, 102>> >>
    }

SgrCodes == {p[1] : p \in SgrTable}
NameTokens == {<<91>> \o p[2] \o <<93>> : p \in SgrTable}

\* The number a run of decimal digits writes.
RECURSIVE RefValue(_)
RefValue(d) ==
    IF d = <<>> THEN 0 ELSE 10 * RefValue(SubSeq(d, 1, Len(d) - 1)) + (d[Len(d)] - 48)

AllDigits(d) == d # <<>> /\ \A x \in 1 .. Len(d) : d[x] \in 48 .. 57

\* The text is one CSI sequence and nothing else.
OneSequence(s) == RefSpans(s) = {<<1, Len(s)>>}

\* The text is ESC "[", one run of decimal digits, "m".
SingleNumber(s) ==
    /\ OneSequence(s)
    /\ s[Len(s)] = 109
    /\ AllDigits(SubSeq(s, 3, Len(s) - 1))

\* The digits that stand directly before element j of s.
RECURSIVE DigitsBefore(_, _)
DigitsBefore(s, j) ==
    IF j > 1 /\ s[j - 1] \in 48 .. 57
    THEN DigitsBefore(s, j - 1) \o <<s[j - 1]>> ELSE <<>>

\* The sequence sp of s cannot get a friendly name: it does not end in
\* "m", or no digit stands directly before the "m", or the number those
\* digits write is not in the table.
NeverNamed(s, sp) ==
    \/ s[sp[2]] # 109
    \/ DigitsBefore(s, sp[2]) = <<>>
    \/ RefValue(DigitsBefore(s, sp[2])) \notin SgrCodes

\* s from element x on with "[" + (the sequence without ESC "[") + "]" in
\* the place of every grammar substring.
RECURSIVE RawInPlace(_, _)
RawInPlace(s, x) ==
    IF x > Len(s) THEN <<>>
    ELSE IF \E sp \in RefSpans(s) : sp[1] = x
    THEN LET sp == CHOOSE q \in RefSpans(s) : q[1] = x
         IN  <<91>> \o SubSeq(s, x + 2, sp[2]) \o <<93>> \o RawInPlace(s, sp[2] + 1)
    ELSE <<s[x]>> \o RawInPlace(s, x + 1)

\* C3: formatForTests gives a friendly name only when the whole sequence
\* after ESC "[" is one run of decimal digits and "m" and the number is in
\* the table; a sequence of any other shape, such as ESC[1;31m, gets the
\* raw fallback token, never the name of one of its parameters.
C3_WholeSequenceOnly ==
    (op = "formatForTests" /\ OneSequence(text)) =>
        /\ result \in NameTokens =>
               (SingleNumber(text) /\ RefValue(SubSeq(text, 3, Len(text) - 1)) \in SgrCodes)
        /\ ~SingleNumber(text) =>
               result \in {<<91>> \o SubSeq(text, 3, Len(text) - 1) \o <<93>>,
                           <<91>> \o SubSeq(text, 3, Len(text)) \o <<93>>}

C5_TableFidelity ==
    (op = "formatForTests" /\ SingleNumber(text)) =>
        LET n == RefValue(SubSeq(text, 3, Len(text) - 1))
        IN  /\ \A p \in SgrTable : p[1] = n => result = <<91>> \o p[2] \o <<93>>
            /\ n \notin SgrCodes => result \notin NameTokens

\* ESC[100m, formatted as [gray-bg].
C5_Witness ==
    /\ op = "formatForTests"
    /\ text = <<27, 91, 49, 48, 48, 109>>
    /\ result = <<91, 103, 114, 97, 121, 45, 98, 103, 93>>

---------------------------------------------------------------------------
\* Every line feed of s as "[n]" and every carriage return as "[r]".
RECURSIVE RefEncode(_)
RefEncode(s) ==
    IF s = <<>> THEN <<>>
    ELSE (IF Head(s) = 10 THEN <<91, 110, 93>>
          ELSE IF Head(s) = 13 THEN <<91, 114, 93>>
          ELSE <<Head(s)>>) \o RefEncode(Tail(s))

CountOf(s, c) == Cardinality({x \in 1 .. Len(s) : s[x] = c})

\* C8: with encodeNewlines true, formatForTests returns what it returns
\* without options, with every line feed then replaced by "[n]" and every
\* carriage return by "[r]": the newline substitution runs after the
\* escape substitution, so a CR or LF inside an incomplete sequence never
\* becomes part of a match.  With options absent, or encodeNewlines unset
\* or false, no CR or LF is changed.
C8_NewlineEncoding ==
    /\ NewlinesEncoded =>
           /\ result = RefEncode(formatForTests(text, Absent, lastIndex).out)
           /\ CountOf(result, 10) = 0
           /\ CountOf(result, 13) = 0
    /\ FormattedPlain =>
           /\ result = formatForTests(text,
                  [present |-> TRUE, encodeNewlines |-> "false"], lastIndex).out
           /\ CountOf(result, 10) = CountOf(text, 10)
           /\ CountOf(result, 13) = CountOf(text, 13)

\* ESC "[" LF "m": the line feed cuts the sequence short; with
\* encodeNewlines the result is ESC "[" "[n]" "m", with no match made.
C8_Witness ==
    /\ NewlinesEncoded
    /\ text = <<27, 91, 10, 109>>
    /\ result = <<27, 91, 91, 110, 93, 109>>

---------------------------------------------------------------------------
\* C9: after any earlier calls, what a call returns depends on its
\* arguments alone: the static patterns carry no scan position over, so
\* the call returns what it returns on freshly built patterns.
C9_Stateless ==
    /\ lastIndex = FreshLastIndex
    /\ op = "removeCodes" => result = removeCodes(text, FreshLastIndex).out
    /\ op = "formatForTests" =>
           result = formatForTests(text, options, FreshLastIndex).out

\* A call on ESC[1m made after earlier calls: it returns [bold].
C9_Witness ==
    /\ earlier
    /\ op = "formatForTests"
    /\ text = <<27, 91, 49, 109>>
    /\ result = <<91, 98, 111, 108, 100, 93>>

---------------------------------------------------------------------------
\* r from element y on and d from element z on are both s from element x
\* on, r with a bracket token in the place of every grammar substring and
\* d with nothing there.
RECURSIVE AgreeFrom(_, _, _, _, _, _)
AgreeFrom(s, x, r, y, d, z) ==
    IF x > Len(s) THEN y = Len(r) + 1 /\ z = Len(d) + 1
    ELSE IF \E sp \in RefSpans(s) : sp[1] = x
    THEN LET sp == CHOOSE q \in RefSpans(s) : q[1] = x
         IN  /\ y <= Len(r)
             /\ r[y] = 91
             /\ \E e \in (y + 1) .. Len(r) :
                 /\ r[e] = 93
                 /\ AgreeFrom(s, sp[2] + 1, r, e + 1, d, z)
    ELSE /\ y <= Len(r)
         /\ z <= Len(d)
         /\ r[y] = s[x]
         /\ d[z] = s[x]
         /\ AgreeFrom(s, x + 1, r, y + 1, d, z + 1)

\* C10: removeCodes and formatForTests (default options) recognise the
\* same spans: deleting the bracket tokens formatForTests substituted
\* gives what removeCodes returns, and formatForTests adds no escape
\* character: those of its result are the unmatched ones of the text.
C10_Agreement ==
    FormattedPlain =>
        /\ AgreeFrom(text, 1, result, 1, removeCodes(text, lastIndex).out, 1)
        /\ CountEsc(result) = CountEsc(removeCodes(text, lastIndex).out)
        /\ CountEsc(result) = CountEsc(text) - Cardinality(RefSpans(text))

\* A text with a sequence, an unmatched escape character and other text.
C10_Witness ==
    /\ FormattedPlain
    /\ RefSpans(text) # {}
    /\ CountEsc(result) > 0
    /\ \E x \in 1 .. Len(result) : result[x] \notin {27, 91, 93}
    /\ AgreeFrom(text, 1, result, 1, removeCodes(text, lastIndex).out, 1)

====
